---- MODULE Spec2Model ----
(***************************************************************************)
(* WakeUpp: next-class resolution (src/api/schedule.js) and alarm          *)
(* calculation (src/utils/alarmCalculator.js) as driven by the home        *)
(* screen's loadAlarmData (src/unnamed/part_003); schedule normalisation   *)
(* (parseSchedule), the campus helpers and the custom lessons screen.      *)
(*                                                                         *)
(* Conventions.                                                            *)
(*  - A JavaScript string is a sequence of one-character strings, so that  *)
(*    the regular expression match and the HH:MM formatting are computed.  *)
(*  - A Date with zero seconds is an integer: minutes relative to 00:00 of *)
(*    the current calendar day (negative = yesterday, >= 1440 = later      *)
(*    days).  The ambient clock "new Date()" is nowMin plus a sub-minute   *)
(*    part nowSub (0 = exactly on the minute, 1 = later in that minute).   *)
(*  - The Russian labels of the source are transliterated:                 *)
(*    "Segodnya" = today, "Zavtra" = tomorrow, "Vchera" = yesterday.       *)
(***************************************************************************)
EXTENDS Integers, Sequences, FiniteSets, TLC

VARIABLES
    schedule,    \* cached parsed schedule: day 1..6 -> list of lessons
    reminders,   \* stored reminders (storage key app_reminders)
    settings,    \* stored settings object or Null
    routeData,   \* stored last route or Null
    nowDay,      \* Date.getDay(): 0 = Sunday .. 6 = Saturday
    nowMin,      \* getHours()*60 + getMinutes()
    nowSub,      \* 0 = clock exactly on the minute, 1 = some seconds later
    nextClass,   \* nextClassData of loadAlarmData
    nextAlarm,   \* nextAlarm state of the home screen
    pc,          \* position inside loadAlarmData
    customLessons, \* stored custom lessons (custom-lessons list of the storage)
    op,          \* the exported function under call, "none" on the home screen
    input,       \* its arguments (and the clock it reads)
    output,      \* its return value once returned
    outcome,     \* "pending", "returned" or "threw"
    cache,       \* storage item cached_schedule: Null or Some([schedule, timestamp])
    clock,       \* Date.now()
    calls,       \* storage calls in flight: caller -> position and locals
    loading,     \* loading state of the home screen
    loads        \* invocations of loadData: invocation -> position and locals

homeVars == <<schedule, reminders, settings, routeData, nowDay, nowMin, nowSub,
              nextClass, nextAlarm, pc, customLessons>>

callVars == <<op, input, output, outcome>>

sideVars == <<cache, clock, calls, loading, loads>>

vars == <<homeVars, callVars, sideVars>>

\* null / undefined / a missing field is the empty sequence, a present
\* value v is <<v>>; a string field holds its characters, '' when missing
Null == <<>>

Some(v) == <<v>>

-----------------------------------------------------------------------------
(* Bounds of the model                                                     *)

MaxLessons == 2

MaxLessonsWithReminders == 1

Slots == {1, 4}

ClockMinutes == {360, 440, 540, 1380}

-----------------------------------------------------------------------------
(* Characters and numbers                                                  *)

Digits == {"0", "1", "2", "3", "4", "5", "6", "7", "8", "9"}

DigitValue(c) ==
    CASE c = "0" -> 0 [] c = "1" -> 1 [] c = "2" -> 2 [] c = "3" -> 3
      [] c = "4" -> 4 [] c = "5" -> 5 [] c = "6" -> 6 [] c = "7" -> 7
      [] c = "8" -> 8 [] c = "9" -> 9

DigitChar(n) ==
    CASE n = 0 -> "0" [] n = 1 -> "1" [] n = 2 -> "2" [] n = 3 -> "3"
      [] n = 4 -> "4" [] n = 5 -> "5" [] n = 6 -> "6" [] n = 7 -> "7"
      [] n = 8 -> "8" [] n = 9 -> "9"

\* parseInt(str, 10) on a string of decimal digits
RECURSIVE parseInt(_)
parseInt(s) ==
    IF Len(s) = 0 THEN 0
    ELSE parseInt(SubSeq(s, 1, Len(s) - 1)) * 10 + DigitValue(s[Len(s)])

\* String(n) for a non-negative integer
RECURSIVE NumToString(_)
NumToString(n) ==
    IF n < 10 THEN <<DigitChar(n)>>
    ELSE NumToString(n \div 10) \o <<DigitChar(n % 10)>>

MinutesPerDay == 1440

Seq2(S) == {<<a, b>> : a \in S, b \in S}

\* String.prototype.padStart(2, '0')
padStart2(s) == IF Len(s) < 2 THEN <<"0">> \o s ELSE s

-----------------------------------------------------------------------------
(* The regular expression /(\d{1,2}):(\d{2})/                              *)

NoMatch == <<>>

MatchTwoAt(s, i) ==
    /\ i + 4 <= Len(s)
    /\ s[i] \in Digits /\ s[i + 1] \in Digits
    /\ s[i + 2] = ":"
    /\ s[i + 3] \in Digits /\ s[i + 4] \in Digits

MatchOneAt(s, i) ==
    /\ i + 3 <= Len(s)
    /\ s[i] \in Digits
    /\ s[i + 1] = ":"
    /\ s[i + 2] \in Digits /\ s[i + 3] \in Digits

\* variant: the rightmost match instead of the leftmost
TimeMatch_Last(s) ==
    LET starts == {i \in 1..Len(s) : MatchTwoAt(s, i) \/ MatchOneAt(s, i)}
    IN  IF starts = {} THEN NoMatch
        ELSE LET i == CHOOSE k \in starts : \A j \in starts : k >= j
             IN  IF MatchTwoAt(s, i)
                 THEN Some([hours   |-> parseInt(SubSeq(s, i, i + 1)),
                            minutes |-> parseInt(SubSeq(s, i + 3, i + 4))])
                 ELSE Some([hours   |-> parseInt(SubSeq(s, i, i)),
                            minutes |-> parseInt(SubSeq(s, i + 2, i + 3))])

\* leftmost match; at one position the greedy \d{1,2} takes two digits first
TimeMatch(s) ==
    LET starts == {i \in 1..Len(s) : MatchTwoAt(s, i) \/ MatchOneAt(s, i)}
    IN  IF starts = {} THEN NoMatch
        ELSE LET i == CHOOSE k \in starts : \A j \in starts : k <= j
             IN  IF MatchTwoAt(s, i)
                 THEN Some([hours   |-> parseInt(SubSeq(s, i, i + 1)),
                            minutes |-> parseInt(SubSeq(s, i + 3, i + 4))])
                 ELSE Some([hours   |-> parseInt(SubSeq(s, i, i)),
                            minutes |-> parseInt(SubSeq(s, i + 2, i + 3))])

-----------------------------------------------------------------------------
(* src/api/schedule.js                                                     *)

LESSON_TIMES ==
    [n \in 1..7 |->
       CASE n = 1 -> <<"0","9",":","0","0","-","1","0",":","3","0">>
         [] n = 2 -> <<"1","0",":","4","0","-","1","2",":","1","0">>
         [] n = 3 -> <<"1","2",":","2","0","-","1","3",":","5","0">>
         [] n = 4 -> <<"1","4",":","3","0","-","1","6",":","0","0">>
         [] n = 5 -> <<"1","6",":","1","0","-","1","7",":","4","0">>
         [] n = 6 -> <<"1","7",":","5","0","-","1","9",":","2","0">>
         [] n = 7 -> <<"1","9",":","3","0","-","2","1",":","0","0">>]

\* the lesson record parseSchedule builds for entry slotIndex of slot
\* lessonNumber on day dayKey (fields the next-class search and the alarm use)
ParsedLesson(dayKey, lessonNumber, slotIndex) ==
    [id           |-> <<dayKey, lessonNumber, slotIndex>>,
     time         |-> IF lessonNumber \in DOMAIN LESSON_TIMES
                      THEN LESSON_TIMES[lessonNumber] ELSE <<>>,
     subject      |-> "sbj",
     type         |-> "Zanyatie",
     lessonNumber |-> lessonNumber]

\* parseTimeString of schedule.js: minutes since midnight, 0 when no match
parseTimeString(timeStr) ==
    IF Len(timeStr) = 0 THEN 0
    ELSE LET match == TimeMatch(timeStr)
         IN  IF match = NoMatch THEN 0
             ELSE match[1].hours * 60 + match[1].minutes

getDayName(dayNumber) ==
    CASE dayNumber = 1 -> "Ponedelnik"
      [] dayNumber = 2 -> "Vtornik"
      [] dayNumber = 3 -> "Sreda"
      [] dayNumber = 4 -> "Chetverg"
      [] dayNumber = 5 -> "Pyatnitsa"
      [] dayNumber = 6 -> "Subbota"
      [] OTHER -> "Neizvestnyy den"

\* parsedSchedule[day] || []
DayOf(parsedSchedule, day) ==
    IF day \in DOMAIN parsedSchedule THEN parsedSchedule[day] ELSE <<>>

normalizeDay(currentDay) == IF currentDay = 0 THEN 7 ELSE currentDay

\* variant: the today loop written with ">="
StartsLater_OrEqual(lessonTime, currentTime) == lessonTime >= currentTime

\* the test of the today loop
StartsLater(lessonTime, currentTime) == lessonTime > currentTime

\* variant: the forward loop stopping before the week is covered
ScanOffsets_Short == 1..5

\* the offsets of the forward loop
ScanOffsets == 1..7

\* variant: wrapping over seven days
checkDayOf_Mod7(normalizedDay, offset) == ((normalizedDay - 1 + offset) % 7) + 1

checkDayOf(normalizedDay, offset) == ((normalizedDay - 1 + offset) % 6) + 1

dateLabel(offset, checkDay) ==
    IF offset = 1 THEN "Zavtra" ELSE getDayName(checkDay)

TaggedLesson(lesson, date, dayNumber) ==
    [id           |-> lesson.id,
     time         |-> lesson.time,
     subject      |-> lesson.subject,
     type         |-> lesson.type,
     lessonNumber |-> lesson.lessonNumber,
     date         |-> date,
     dayNumber    |-> dayNumber]

getNextClass(parsedSchedule, currentDay, currentTime) ==
    LET normalizedDay == normalizeDay(currentDay)
        todaySchedule == DayOf(parsedSchedule, normalizedDay)
        later == {i \in 1..Len(todaySchedule) :
                    StartsLater(parseTimeString(todaySchedule[i].time),
                                currentTime)}
        nonEmpty == {offset \in ScanOffsets :
                       Len(DayOf(parsedSchedule,
                                 checkDayOf(normalizedDay, offset))) > 0}
    IN  IF later # {}
        THEN LET i == CHOOSE k \in later : \A j \in later : k <= j
             IN  Some(TaggedLesson(todaySchedule[i], "Segodnya",
                                   normalizedDay))
        ELSE IF nonEmpty # {}
        THEN LET offset == CHOOSE k \in nonEmpty : \A j \in nonEmpty : k <= j
                 checkDay == checkDayOf(normalizedDay, offset)
             IN  Some(TaggedLesson(DayOf(parsedSchedule, checkDay)[1],
                                   dateLabel(offset, checkDay), checkDay))
        ELSE Null

\* variant: date and dayNumber assigned to the lesson itself
lessonAfterSpread_Assigned(lesson, date, dayNumber) ==
    TaggedLesson(lesson, date, dayNumber)

\* the lesson object after { ...lesson, date, dayNumber } was built from it:
\* the spread copies its fields into the new object
lessonAfterSpread(lesson, date, dayNumber) == lesson

\* parsedSchedule as getNextClass leaves it (lines 263-267 and 277-281 are
\* the only statements that touch a lesson)
scheduleAfterGetNextClass(parsedSchedule, currentDay, currentTime) ==
    LET result == getNextClass(parsedSchedule, currentDay, currentTime)
    IN  IF result = Null THEN parsedSchedule
        ELSE [d \in DOMAIN parsedSchedule |->
                [i \in 1..Len(parsedSchedule[d]) |->
                    IF parsedSchedule[d][i].id = result[1].id
                    THEN lessonAfterSpread(parsedSchedule[d][i],
                                           result[1].date, result[1].dayNumber)
                    ELSE parsedSchedule[d][i]]]

-----------------------------------------------------------------------------
(* src/api/schedule.js: parseSchedule                                      *)
(* A raw object is the sequence of its <<key, value>> entries in insertion *)
(* order; a date-only string "YYYY-MM-DD" is its day number, and an        *)
(* instant is minutes since 00:00 UTC of day 0.                            *)

\* String.prototype.trim (the space stands for every whitespace character)
RECURSIVE trimStart(_)
trimStart(str) ==
    IF Len(str) > 0 /\ Head(str) = " " THEN trimStart(Tail(str)) ELSE str

RECURSIVE trimEnd(_)
trimEnd(str) ==
    IF Len(str) > 0 /\ str[Len(str)] = " "
    THEN trimEnd(SubSeq(str, 1, Len(str) - 1))
    ELSE str

trim(str) == trimEnd(trimStart(str))

\* str.replace(/<[^>]*>/g, ''): every "<" up to the nearest ">" is removed
RECURSIVE stripTags(_)
stripTags(str) ==
    IF Len(str) = 0 THEN <<>>
    ELSE IF Head(str) = "<" /\ \E j \in 2..Len(str) : str[j] = ">"
         THEN LET j == CHOOSE k \in 2..Len(str) :
                          /\ str[k] = ">"
                          /\ \A m \in 2..(k - 1) : str[m] # ">"
              IN  stripTags(SubSeq(str, j + 1, Len(str)))
         ELSE <<Head(str)>> \o stripTags(Tail(str))

\* the placeholders of parseSchedule, transliterated
UnknownSubject ==
    <<"N", "e", "i", "z", "v", "e", "s", "t", "n", "y", "j", " ", "p", "r", "e", "d", "m", "e", "t">>

DefaultType ==
    <<"Z", "a", "n", "y", "a", "t", "i", "e">>

RoomNotSet ==
    <<"A", "u", "d", "i", "t", "o", "r", "i", "y", "a", " ", "n", "e", " ", "u", "k", "a", "z", "a", "n", "a">>

TeacherNotSet ==
    <<"P", "r", "e", "p", "o", "d", "a", "v", "a", "t", "e", "l", " ", "n", "e", " ", "u", "k", "a", "z", "a", "n">>

\* a property key that is a canonical array index ("0", "7", "10", not "02")
IsArrayIndex(key) ==
    /\ Len(key) > 0
    /\ \A i \in 1..Len(key) : key[i] \in Digits
    /\ Len(key) = 1 \/ key[1] # "0"

\* the sequence seq reordered by ascending rank, equal ranks keeping
\* their order
StableSortBy(seq, rank) ==
    LET pos(i) == 1 + Cardinality({j \in 1..Len(seq) :
                          \/ rank[j] < rank[i]
                          \/ rank[j] = rank[i] /\ j < i})
    IN  [p \in 1..Len(seq) |-> seq[CHOOSE i \in 1..Len(seq) : pos(i) = p]]

\* Object.keys(obj): array-index keys in ascending numeric order, then the
\* other string keys in insertion order
ObjectKeys(obj) ==
    LET keys  == [i \in 1..Len(obj) |-> obj[i].key]
        ints  == SelectSeq(keys, LAMBDA k : IsArrayIndex(k))
        other == SelectSeq(keys, LAMBDA k : ~ IsArrayIndex(k))
    IN  StableSortBy(ints, [i \in 1..Len(ints) |-> parseInt(ints[i])]) \o other

\* obj[key]
ValueOf(obj, key) ==
    obj[CHOOSE i \in 1..Len(obj) : obj[i].key = key].value

\* new Date("YYYY-MM-DD"): 00:00 UTC of that day
DateOf(dayNumber) == dayNumber * MinutesPerDay

\* lines 168-182: the module window; FALSE when the lesson is skipped
InModuleWindow(lesson, now) ==
    IF lesson.df # Null /\ lesson.dt # Null
    THEN LET dateFrom == DateOf(lesson.df[1])
             dateTo   == DateOf(lesson.dt[1])
         IN  ~ (now > dateTo) /\ ~ (now < dateFrom)
    ELSE TRUE

\* lines 185-192
roomOf(lesson) ==
    IF lesson.shortRooms # Null /\ Len(lesson.shortRooms[1]) > 0
    THEN lesson.shortRooms[1][1]
    ELSE IF lesson.auditories # Null /\ Len(lesson.auditories[1]) > 0
         THEN LET auditory == lesson.auditories[1][1]
              IN  IF Len(auditory.title) > 0 THEN stripTags(auditory.title)
                  ELSE RoomNotSet
         ELSE RoomNotSet

\* LESSON_TIMES[lessonNumber] || '' for the string key lessonNumber
timeOfSlot(lessonNumber) ==
    IF IsArrayIndex(lessonNumber) /\ parseInt(lessonNumber) \in DOMAIN LESSON_TIMES
    THEN LESSON_TIMES[parseInt(lessonNumber)]
    ELSE <<>>

\* lines 198-200
teacherOf(lesson) ==
    IF Len(lesson.teacher) > 0 /\ trim(lesson.teacher) # <<>>
    THEN lesson.teacher
    ELSE TeacherNotSet

\* lines 202-213
parseLesson(dayKey, lessonNumber, slotIndex, lesson) ==
    [id           |-> <<dayKey, lessonNumber, slotIndex>>,
     time         |-> timeOfSlot(lessonNumber),
     subject      |-> IF Len(lesson.sbj) > 0 THEN lesson.sbj ELSE UnknownSubject,
     type         |-> IF Len(lesson.type) > 0 THEN lesson.type ELSE DefaultType,
     room         |-> roomOf(lesson),
     professor    |-> teacherOf(lesson),
     lessonNumber |-> parseInt(lessonNumber),
     dateFrom     |-> lesson.df,
     dateTo       |-> lesson.dt]

\* lines 162-216: the entries of one slot that are objects inside their window
slotLessons(dayKey, lessonNumber, lessonsInSlot, now) ==
    LET idx == SelectSeq([i \in 1..Len(lessonsInSlot) |-> i],
                         LAMBDA i : /\ lessonsInSlot[i] # Null
                                    /\ InModuleWindow(lessonsInSlot[i][1], now))
    IN  [k \in 1..Len(idx) |->
            parseLesson(dayKey, lessonNumber, idx[k] - 1,
                        lessonsInSlot[idx[k]][1])]

\* lines 153-217: allLessonsForDay after the loop over Object.keys(dayData)
RECURSIVE allLessonsForDay(_, _, _, _)
allLessonsForDay(dayKey, dayData, keys, now) ==
    IF Len(keys) = 0 THEN <<>>
    ELSE LET lessonsInSlot == ValueOf(dayData, Head(keys))
             here == IF lessonsInSlot = Null THEN <<>>
                     ELSE slotLessons(dayKey, Head(keys), lessonsInSlot[1], now)
         IN  here \o allLessonsForDay(dayKey, dayData, Tail(keys), now)

\* variant: the day list left in the order of the loop
sortByLessonNumber_Unsorted(lessons) == lessons

\* line 220
sortByLessonNumber(lessons) ==
    StableSortBy(lessons, [i \in 1..Len(lessons) |-> lessons[i].lessonNumber])

\* lines 143-222: parsedSchedule[dayKey]
parseDay(dayKey, dayData, now) ==
    IF dayData = Null THEN <<>>
    ELSE sortByLessonNumber(
             allLessonsForDay(dayKey, dayData[1], ObjectKeys(dayData[1]), now))

\* parseSchedule(rawSchedule) read at the instant now: day key -> day list
parseSchedule(rawSchedule, now) ==
    IF rawSchedule = Null \/ rawSchedule[1].grid = Null THEN <<>>
    ELSE LET grid == rawSchedule[1].grid[1]
         IN  [dayKey \in {grid[i].key : i \in 1..Len(grid)} |->
                 parseDay(dayKey, ValueOf(grid, dayKey), now)]

-----------------------------------------------------------------------------
(* src/utils/alarmCalculator.js                                            *)

DefaultMorningRoutine == <<"6", "0">>

DefaultExtraTime == <<"1", "0">>

DefaultTravelTime == 30

\* getHours() / getMinutes() / calendar-day offset of a Date
getHours(date) == (date % MinutesPerDay) \div 60

getMinutes(date) == (date % MinutesPerDay) % 60

DayOffset(date) == date \div MinutesPerDay

\* parseTimeString of alarmCalculator.js: a Date on the base day (today,
\* whose 00:00 is 0); setHours(hours, minutes, 0, 0) carries overflow
\* variant: the pattern asking for two hour digits
parseTimeStringToDate_TwoDigitHours(timeStr) ==
    IF Len(timeStr) = 0 THEN Null
    ELSE LET starts == {i \in 1..Len(timeStr) : MatchTwoAt(timeStr, i)}
         IN  IF starts = {} THEN Null
             ELSE Some(parseTimeString(timeStr))

parseTimeStringToDate(timeStr) ==
    IF Len(timeStr) = 0 THEN Null
    ELSE LET match == TimeMatch(timeStr)
         IN  IF match = NoMatch THEN Null
             ELSE Some(match[1].hours * 60 + match[1].minutes)

\* variant: no padStart
formatTime_NoPad(date) ==
    NumToString(getHours(date)) \o <<":">> \o NumToString(getMinutes(date))

formatTime(date) ==
    padStart2(NumToString(getHours(date))) \o <<":">>
        \o padStart2(NumToString(getMinutes(date)))

getRelativeDayName(date, today) ==
    LET diffDays == DayOffset(date)
        targetDay == (today + diffDays) % 7
    IN  CASE diffDays = 0  -> "Segodnya"
          [] diffDays = 1  -> "Zavtra"
          [] diffDays = -1 -> "Vchera"
          [] OTHER ->
               CASE targetDay = 0 -> "Voskresenye"
                 [] targetDay = 1 -> "Ponedelnik"
                 [] targetDay = 2 -> "Vtornik"
                 [] targetDay = 3 -> "Sreda"
                 [] targetDay = 4 -> "Chetverg"
                 [] targetDay = 5 -> "Pyatnitsa"
                 [] targetDay = 6 -> "Subbota"

\* variant: the difference of the day numbers without the wrap
getDaysForward_NoWrap(targetDayNumber, today) ==
    LET normalizedToday == IF today = 0 THEN 7 ELSE today
    IN  targetDayNumber - normalizedToday

\* variant: the wrap adding the six academic days
getDaysForward_Wrap6(targetDayNumber, today) ==
    LET normalizedToday == IF today = 0 THEN 7 ELSE today
        daysForward == targetDayNumber - normalizedToday
    IN  IF daysForward <= 0 THEN daysForward + 6 ELSE daysForward

\* variant: the wrap test written "< 0"
getDaysForward_StrictWrap(targetDayNumber, today) ==
    LET normalizedToday == IF today = 0 THEN 7 ELSE today
        daysForward == targetDayNumber - normalizedToday
    IN  IF daysForward < 0 THEN daysForward + 7 ELSE daysForward

getDaysForward(targetDayNumber, today) ==
    LET normalizedToday == IF today = 0 THEN 7 ELSE today
        daysForward == targetDayNumber - normalizedToday
    IN  IF daysForward <= 0 THEN daysForward + 7 ELSE daysForward

\* alarmTime < now, now carrying seconds that alarmTime does not
DateBefore(date, minuteNow, subNow) ==
    date < minuteNow \/ (date = minuteNow /\ subNow > 0)

\* str.split(' ')[0]
FirstWord(str) ==
    LET spaces == {i \in 1..Len(str) : str[i] = " "}
    IN  IF spaces = {} THEN str
        ELSE SubSeq(str, 1, (CHOOSE k \in spaces : \A j \in spaces : k <= j) - 1)

\* settings?.field || dflt, for a string field
StringOr(obj, field, dflt) ==
    IF obj = Null THEN dflt
    ELSE IF Len(obj[1][field]) = 0 THEN dflt ELSE obj[1][field]

\* routeData?.duration || 30
travelTimeOf(route) ==
    IF route = Null THEN DefaultTravelTime
    ELSE IF route[1].duration = Null \/ route[1].duration[1] = 0
         THEN DefaultTravelTime
         ELSE route[1].duration[1]

\* routeData?.trafficInfo?.additionalTime || 0
trafficExtraOf(route) ==
    IF route = Null THEN 0
    ELSE IF route[1].trafficInfo = Null THEN 0
    ELSE IF route[1].trafficInfo[1].additionalTime = Null THEN 0
    ELSE route[1].trafficInfo[1].additionalTime[1]

calculateAlarm(event, userSettings, route, today, minuteNow, subNow) ==
    IF event = Null THEN Null
    ELSE IF Len(event[1].time) = 0 THEN Null
    ELSE LET classStartTime == parseTimeStringToDate(event[1].time)
         IN  IF classStartTime = Null THEN Null
             ELSE
             LET morningRoutine ==
                     parseInt(StringOr(userSettings, "morningRoutine",
                                       DefaultMorningRoutine))
                 extraTime ==
                     parseInt(StringOr(userSettings, "extraTime",
                                       DefaultExtraTime))
                 totalTravelTime == travelTimeOf(route) + trafficExtraOf(route)
                 totalMinutesBeforeClass ==
                     morningRoutine + totalTravelTime + extraTime
                 alarmTime == classStartTime[1] - totalMinutesBeforeClass
                 alarmDate ==
                     IF /\ DateBefore(alarmTime, minuteNow, subNow)
                        /\ event[1].date # "Segodnya"
                     THEN getDaysForward(event[1].dayNumber, today)
                              * MinutesPerDay
                          + getHours(alarmTime) * 60 + getMinutes(alarmTime)
                     ELSE alarmTime
             IN  Some([time      |-> formatTime(alarmDate),
                       date      |-> getRelativeDayName(alarmDate, today),
                       fullDate  |-> alarmDate,
                       classTime |-> FirstWord(event[1].time),
                       className |-> event[1].subject,
                       classType |-> event[1].type,
                       breakdown |->
                           [morningRoutine |-> morningRoutine,
                            travelTime     |-> totalTravelTime,
                            extraTime      |-> extraTime,
                            total          |-> totalMinutesBeforeClass]])

-----------------------------------------------------------------------------
(* src/utils/alarmCalculator.js: campus helpers.  The Cyrillic campus      *)
(* codes are written with Latin letters: "pr", "pk", "av", "bs".           *)

UpperLetters ==
    <<"A", "B", "C", "D", "E", "F", "G", "H", "I", "J", "K", "L", "M", "N", "O", "P", "Q", "R", "S", "T", "U", "V", "W", "X", "Y", "Z">>

LowerLetters ==
    <<"a", "b", "c", "d", "e", "f", "g", "h", "i", "j", "k", "l", "m", "n", "o", "p", "q", "r", "s", "t", "u", "v", "w", "x", "y", "z">>

\* variant: the string left in its own case
toLowerCase_Identity(str) == str

\* String.prototype.toLowerCase
toLowerCase(str) ==
    [i \in 1..Len(str) |->
        IF \E n \in 1..Len(UpperLetters) : UpperLetters[n] = str[i]
        THEN LowerLetters[CHOOSE n \in 1..Len(UpperLetters) :
                              UpperLetters[n] = str[i]]
        ELSE str[i]]

CampusCodes == {<<"p", "r">>, <<"p", "k">>, <<"a", "v">>, <<"b", "s">>}

\* room is [type, value]: typeof room and, for a string, its characters
extractCampusCode(room) ==
    IF room.type # "string" \/ Len(room.value) = 0 THEN Null
    ELSE LET cleanRoom == toLowerCase(trim(stripTags(room.value)))
             codes == {c \in CampusCodes :
                          /\ Len(cleanRoom) >= 3
                          /\ SubSeq(cleanRoom, 1, 2) = c
                          /\ cleanRoom[3] = "-"}
         IN  IF codes # {} THEN Some(CHOOSE c \in codes : TRUE) ELSE Null

\* variant: a slot counts as elapsed at its last minute
slotNotElapsed_Strict(lessonTimeInMinutes, currentTimeInMinutes) ==
    lessonTimeInMinutes + 90 > currentTimeInMinutes

\* line 309
slotNotElapsed(lessonTimeInMinutes, currentTimeInMinutes) ==
    lessonTimeInMinutes + 90 >= currentTimeInMinutes

\* the code of lesson.room, Null when the room is missing or has no code
campusCodeOf(lesson) ==
    IF Len(lesson.room) = 0 THEN Null
    ELSE extractCampusCode([type |-> "string", value |-> lesson.room])

\* daySchedule is Null (missing or no array) or Some(list of lessons);
\* currentTimeInMinutes is getHours() * 60 + getMinutes() of currentTime
getNextCampus(daySchedule, currentTimeInMinutes) ==
    IF daySchedule = Null \/ Len(daySchedule[1]) = 0 THEN Null
    ELSE LET lessons == daySchedule[1]
             nearest == {i \in 1..Len(lessons) :
                           /\ Len(lessons[i].time) > 0
                           /\ Len(lessons[i].room) > 0
                           /\ TimeMatch(lessons[i].time) # NoMatch
                           /\ slotNotElapsed(
                                  TimeMatch(lessons[i].time)[1].hours * 60
                                    + TimeMatch(lessons[i].time)[1].minutes,
                                  currentTimeInMinutes)
                           /\ campusCodeOf(lessons[i]) # Null}
             anyCode == {i \in 1..Len(lessons) : campusCodeOf(lessons[i]) # Null}
             First(S) == CHOOSE i \in S : \A j \in S : i <= j
         IN  IF nearest # {} THEN campusCodeOf(lessons[First(nearest)])
             ELSE IF anyCode # {} THEN campusCodeOf(lessons[First(anyCode)])
             ELSE Null

\* variant: any non-empty address accepted
addressGiven_NoTrim(address) == Len(address) > 0

\* campus.address && campus.address.trim()
addressGiven(address) == Len(address) > 0 /\ trim(address) # <<>>

\* campusCode is Null or Some(characters); campusAddresses is
\* [isArray, items], items the entries [code, address] of the settings
getCampusAddress(campusCode, campusAddresses) ==
    IF campusCode = Null \/ Len(campusCode[1]) = 0 \/ campusAddresses = Null
       \/ ~ campusAddresses[1].isArray
    THEN Null
    ELSE LET items == campusAddresses[1].items
             found == {i \in 1..Len(items) : items[i].code = campusCode[1]}
         IN  IF found = {} THEN Null
             ELSE LET campus == items[CHOOSE i \in found :
                                          \A j \in found : i <= j]
                  IN  IF addressGiven(campus.address)
                      THEN Some(campus.address)
                      ELSE Null

-----------------------------------------------------------------------------
(* Inputs: what the storage and the clock can hold when the screen loads   *)

\* the slot numbers of one day's list, in the order parseSchedule leaves
\* them in: sorted by lessonNumber, at most two entries per day
DayShapes ==
    {<<>>} \cup {<<n>> : n \in Slots}
           \cup {p \in Seq2(Slots) : p[1] <= p[2]}

\* the list parseSchedule produces for a day whose slots are shape;
\* slotIndex counts the entries of one slot
DayList(day, shape) ==
    [i \in 1..Len(shape) |->
        ParsedLesson(day, shape[i],
                     Cardinality({j \in 1..(i - 1) : shape[j] = shape[i]}))]

RECURSIVE SumLen(_, _)
SumLen(f, days) ==
    IF days = {} THEN 0
    ELSE LET d == CHOOSE x \in days : TRUE
         IN  Len(f[d]) + SumLen(f, days \ {d})

Schedules(maxLessons) ==
    {[d \in 1..6 |-> DayList(d, shapes[d])] :
        shapes \in {f \in [1..6 -> DayShapes] : SumLen(f, 1..6) <= maxLessons}}

SettingsValues ==
    {Null,
     Some([morningRoutine |-> <<"6", "0">>, extraTime |-> <<"1", "0">>]),
     Some([morningRoutine |-> <<"6", "0", "0">>, extraTime |-> <<"0">>])}

RouteValues ==
    {Null,
     Some([duration |-> Some(35), trafficInfo |-> Null]),
     Some([duration |-> Some(0),
           trafficInfo |-> Some([additionalTime |-> Some(5)])]),
     Some([duration |-> Null,
           trafficInfo |-> Some([additionalTime |-> Null])])}

\* reminder datetimes, in minutes from today's 00:00
ReminderLists ==
    {<<>>,
     <<[id |-> "r1", datetime |-> 720]>>,
     <<[id |-> "r1", datetime |-> 3 * MinutesPerDay + 600],
       [id |-> "r2", datetime |-> 200]>>}

-----------------------------------------------------------------------------
(* The state machine: one run of loadAlarmData                             *)

\* nothing cached, no storage call in flight, the home screen as mounted
SideIdle ==
    /\ cache = Null
    /\ clock = 0
    /\ calls = <<>>
    /\ loading = TRUE
    /\ loads = <<>>

TypeOK ==
    /\ nowDay \in 0..6
    /\ nowMin \in 0..(MinutesPerDay - 1)
    /\ nowSub \in {0, 1}
    /\ pc \in {"start", "route", "done"}
    /\ outcome \in {"pending", "returned", "threw"}

InitCommon ==
    /\ settings \in SettingsValues
    /\ routeData \in RouteValues
    /\ nowDay \in 0..6
    /\ nowMin \in ClockMinutes
    /\ nowSub \in {0, 1}
    /\ nextClass = Null
    /\ nextAlarm = Null
    /\ pc = "start"
    /\ customLessons = <<>>
    /\ op = "none"
    /\ input = Null
    /\ output = Null
    /\ outcome = "pending"
    /\ SideIdle

Init ==
    /\ schedule \in Schedules(MaxLessons)
    /\ reminders = <<>>
    /\ InitCommon

\* loadAlarmData up to the await of loadRouteData
GetNextClass ==
    /\ pc = "start"
    /\ nextClass' = getNextClass(schedule, nowDay, nowMin)
    /\ nextAlarm' = Null
    /\ pc' = IF nextClass' = Null THEN "done" ELSE "route"
    /\ UNCHANGED <<schedule, reminders, settings, routeData,
                   nowDay, nowMin, nowSub, customLessons>>
    /\ UNCHANGED <<callVars, sideVars>>

\* loadAlarmData after loadRouteData resolved
CalculateAlarm ==
    /\ pc = "route"
    /\ nextAlarm' = calculateAlarm(nextClass, settings, routeData,
                                   nowDay, nowMin, nowSub)
    /\ pc' = "done"
    /\ UNCHANGED <<schedule, reminders, settings, routeData,
                   nowDay, nowMin, nowSub, nextClass, customLessons>>
    /\ UNCHANGED <<callVars, sideVars>>

Next ==
    \/ GetNextClass
    \/ CalculateAlarm

Spec == Init /\ [][Next]_vars

\* the same screen with reminders in storage
InitWithReminders ==
    /\ schedule \in Schedules(MaxLessonsWithReminders)
    /\ reminders \in ReminderLists
    /\ InitCommon

SpecWithReminders == InitWithReminders /\ [][Next]_vars

-----------------------------------------------------------------------------
(* Direct calls of the exported functions: the arguments are drawn when    *)
(* the call is made, the action is the function returning                  *)

\* the home screen at rest while a function is called directly
HomeIdle ==
    /\ schedule = [d \in 1..6 |-> <<>>]
    /\ reminders = <<>>
    /\ settings = Null
    /\ routeData = Null
    /\ nowDay = 1
    /\ nowMin = 0
    /\ nowSub = 0
    /\ nextClass = Null
    /\ nextAlarm = Null
    /\ pc = "start"
    /\ customLessons = <<>>

\* getDaysForward(targetDayNumber) with the weekday the clock shows
DaysForwardInputs == [target : 1..6, today : 0..6]

CallGetDaysForward ==
    /\ op = "getDaysForward"
    /\ outcome = "pending"
    /\ output' = getDaysForward(input.target, input.today)
    /\ outcome' = "returned"
    /\ UNCHANGED <<op, input>>
    /\ UNCHANGED <<homeVars, sideVars>>

\* sample time strings
T_SPACED ==
    <<"0", "9", ":", "0", "0", " ", "-", " ", "1", "0", ":", "3", "0">>

T_ONEDIGIT ==
    <<"9", ":", "0", "5">>

T_TEXT ==
    <<"d", "o", " ", "0", "9", ":", "0", "5", ",", " ", "p", "o", "t", "o", "m", " ", "1", "0", ":", "0", "0">>

T_ABC ==
    <<"a", "b", "c">>

T_LONG ==
    <<"1", "0", "9", ":", "0", "5">>

T_SHORTMIN ==
    <<"1", "2", ":", "3">>

T_LATER ==
    <<"1", ":", "5", " ", "2", "3", ":", "5", "9">>

T_TAGGED ==
    <<"<", "b", ">", "1", "4", ":", "3", "0", "<", "/", "b", ">">>

\* time strings: slot ranges, free text around a time, one-digit hours,
\* no time at all
TimeStrings ==
    {<<>>,
     LESSON_TIMES[1],
     T_SPACED,
     T_ONEDIGIT,
     T_TEXT,
     T_ABC,
     T_LONG,
     T_SHORTMIN,
     T_LATER,
     T_TAGGED}

EventInputs ==
    {Null} \cup
    {Some([id |-> <<3, 1, 0>>, time |-> t, subject |-> "sbj",
           type |-> "Zanyatie", lessonNumber |-> 1,
           date |-> d, dayNumber |-> 3]) :
        t \in TimeStrings, d \in {"Segodnya", "Sreda"}}

\* calculateAlarm(nextClass, settings, routeData) with the clock it reads
CalculateAlarmInputs ==
    [event : EventInputs, settings : SettingsValues,
     route : {Null, Some([duration |-> Some(35), trafficInfo |-> Null])},
     today : {1}, minuteNow : {540}, subNow : {0}]

CallCalculateAlarm ==
    /\ op = "calculateAlarm"
    /\ outcome = "pending"
    /\ output' = calculateAlarm(input.event, input.settings, input.route,
                                input.today, input.minuteNow, input.subNow)
    /\ outcome' = "returned"
    /\ UNCHANGED <<op, input>>
    /\ UNCHANGED <<homeVars, sideVars>>

\* a parsed schedule with a day key missing and a lesson without a time
SparseSchedule ==
    [d \in {2, 5} |-> IF d = 2 THEN <<>> ELSE <<ParsedLesson(5, 8, 0)>>]

\* getNextClass(parsedSchedule) with the clock it reads
GetNextClassInputs ==
    [schedule : {Null, Some(SparseSchedule)}
                  \cup {Some(sch) : sch \in Schedules(1)},
     currentDay : 0..6, currentTime : {540, 1380}]

\* reading parsedSchedule[normalizedDay] of null or undefined is a TypeError
getNextClassThrows(parsedSchedule) == parsedSchedule = Null

CallGetNextClass ==
    /\ op = "getNextClass"
    /\ outcome = "pending"
    /\ IF getNextClassThrows(input.schedule)
       THEN /\ outcome' = "threw"
            /\ output' = Null
            /\ UNCHANGED input
       ELSE /\ outcome' = "returned"
            /\ output' = getNextClass(input.schedule[1], input.currentDay,
                                      input.currentTime)
            /\ input' = [input EXCEPT !.schedule =
                            Some(scheduleAfterGetNextClass(
                                     input.schedule[1], input.currentDay,
                                     input.currentTime))]
    /\ UNCHANGED op
    /\ UNCHANGED <<homeVars, sideVars>>

\* a raw lesson of the feed; '' and a missing field are both <<>>
RawLesson(sbj, type, teacher, shortRooms, auditories, df, dt) ==
    [sbj |-> sbj, type |-> type, teacher |-> teacher,
     shortRooms |-> shortRooms, auditories |-> auditories,
     df |-> df, dt |-> dt]

PlainLesson ==
    RawLesson(<<"M">>, <<"L">>, <<"T">>, Some(<<<<"p", "r", "-", "1">>>>),
              Null, Null, Null)

\* {"grid": {"1": dayData}}
RawWithDay(dayData) ==
    Some([grid |-> Some(<<[key |-> <<"1">>, value |-> dayData]>>)])

\* {"grid": {"1": {"1": [lesson]}}}
OneLessonRaw(lesson) ==
    RawWithDay(Some(<<[key |-> <<"1">>, value |-> Some(<<Some(lesson)>>)]>>))

MaxSlotKeys == 3

MaxPerSlot == 2

\* slot keys as the feed writes them, one of them not a canonical index
SlotKeys == {<<"1">>, <<"3">>, <<"1", "0">>, <<"0", "2">>}

\* the insertion orders of up to MaxSlotKeys distinct slot keys
KeyOrders ==
    {q \in UNION {[1..n -> SlotKeys] : n \in 1..MaxSlotKeys} :
        \A i, j \in 1..Len(q) : i # j => q[i] # q[j]}

OrderingRaws ==
    {RawWithDay(Some([i \in 1..Len(q) |->
                        [key |-> q[i],
                         value |-> Some([j \in 1..c |-> Some(PlainLesson)])]])) :
        q \in KeyOrders, c \in 1..MaxPerSlot}

\* module windows df..dt as day numbers
Windows ==
    {<<Null, Null>>, <<Some(10), Null>>, <<Some(10), Some(12)>>,
     <<Some(12), Some(12)>>}

WindowRaws ==
    {OneLessonRaw(RawLesson(<<"M">>, <<"L">>, <<"T">>, Null, Null, w[1], w[2])) :
        w \in Windows}

\* instants at the start, in the morning and at the end of days 9..13
WindowNows ==
    {d * MinutesPerDay + m : d \in 9..13, m \in {0, 540, 1439}}

\* subject / type / teacher as the feed can carry them
TextFields == {<<>>, <<" ">>, <<"M">>}

\* shortRooms and auditories as the feed can carry them
RoomFields ==
    {[short |-> Null, aud |-> Null],
     [short |-> Null, aud |-> Some(<<>>)],
     [short |-> Null, aud |-> Some(<<[title |-> <<>>]>>)],
     [short |-> Null, aud |-> Some(<<[title |-> <<"<", "b", ">", "<", "/", "b", ">">>]>>)],
     [short |-> Some(<<>>),
      aud   |-> Some(<<[title |-> <<"<", "b", ">", "a", "v", "-", "2", "<", "/", "b", ">">>]>>)],
     [short |-> Some(<<<<"p", "r", "-", "1">>>>), aud |-> Null],
     [short |-> Some(<<<<" ">>>>), aud |-> Null],
     [short |-> Some(<<<<>>>>), aud |-> Null]}

FieldRaws ==
    {OneLessonRaw(RawLesson(sbj, type, teacher, r.short, r.aud, Null, Null)) :
        sbj \in TextFields, type \in TextFields, teacher \in TextFields,
        r \in RoomFields}

\* absent data: no schedule, no grid, an empty grid, a null day, a day
\* without slots, a slot that is no array, an empty slot, a null entry
AbsentRaws ==
    {Null,
     Some([grid |-> Null]),
     Some([grid |-> Some(<<>>)]),
     RawWithDay(Null),
     RawWithDay(Some(<<>>)),
     RawWithDay(Some(<<[key |-> <<"1">>, value |-> Null]>>)),
     RawWithDay(Some(<<[key |-> <<"1">>, value |-> Some(<<>>)]>>)),
     RawWithDay(Some(<<[key |-> <<"1">>, value |-> Some(<<Null>>)]>>))}

\* parseSchedule(rawSchedule) with the instant it reads
ParseScheduleInputs ==
    [raw : OrderingRaws \cup FieldRaws \cup AbsentRaws, now : {0}]
        \cup [raw : WindowRaws, now : WindowNows]

CallParseSchedule ==
    /\ op = "parseSchedule"
    /\ outcome = "pending"
    /\ output' = parseSchedule(input.raw, input.now)
    /\ outcome' = "returned"
    /\ UNCHANGED <<op, input>>
    /\ UNCHANGED <<homeVars, sideVars>>

\* sample room strings
R_PR ==
    <<"p", "r", "-", "1", "2", "3">>

R_TAGGED ==
    <<"<", "b", ">", "P", "K", "-", "4", "0", "1", "<", "/", "b", ">">>

R_PLAIN ==
    <<"R", "o", "o", "m", " ", "5">>

R_NOHYPHEN ==
    <<"p", "r", "1", "2", "3">>

R_SPACED ==
    <<" ", "a", "v", "-", "2", " ">>

R_SPLIT ==
    <<"a", "<", "i", ">", "v", "-", "2">>

R_BARE ==
    <<"b", "s", "-">>

R_INNER ==
    <<"x", "p", "r", "-", "1">>

R_MIXED ==
    <<"P", "k", "-", "7">>

R_GAP ==
    <<"p", "r", " ", "-", "1">>

R_OPEN ==
    <<"<", "p", "r", "-", "1">>

R_SHORT ==
    <<"p", "r">>

R_LEADHYPHEN ==
    <<"-", "p", "r", "-", "1">>

R_TAGSPACE ==
    <<"<", "b", ">", " ", "b", "s", "-", "3", "<", "/", "b", ">">>

R_CLOSE ==
    <<">", "a", "v", "-", "1">>

RoomStrings ==
    {R_PR,
     R_TAGGED,
     R_PLAIN,
     R_NOHYPHEN,
     R_SPACED,
     R_SPLIT,
     R_BARE,
     R_INNER,
     R_MIXED,
     R_GAP,
     R_OPEN,
     R_SHORT,
     R_LEADHYPHEN,
     R_TAGSPACE,
     R_CLOSE}

\* extractCampusCode(room): strings, undefined and a number
RoomInputs ==
    [type : {"string"}, value : RoomStrings \cup {<<>>}]
        \cup {[type |-> "undefined", value |-> <<>>],
              [type |-> "number", value |-> <<"5">>]}

CallExtractCampusCode ==
    /\ op = "extractCampusCode"
    /\ outcome = "pending"
    /\ output' = extractCampusCode(input.room)
    /\ outcome' = "returned"
    /\ UNCHANGED <<op, input>>
    /\ UNCHANGED <<homeVars, sideVars>>

A_PR ==
    <<"P", "r", "y", "a", "n", "i", "s", "h", "n", "i", "k", "o", "v", "a", " ", "2", "a">>

A_BS ==
    <<" ", "B", ".", " ", "S", "e", "m", "e", "n", "o", "v", "s", "k", "a", "y", "a", " ", "3", "8", " ">>

\* the four campuses of the settings screen with addresses as the user
\* can leave them: filled, empty, whitespace only
CampusEntries(pr, pk, av, bs) ==
    <<[code |-> <<"p", "r">>, address |-> pr],
      [code |-> <<"p", "k">>, address |-> pk],
      [code |-> <<"a", "v">>, address |-> av],
      [code |-> <<"b", "s">>, address |-> bs]>>

CampusAddressLists ==
    {Null,
     Some([isArray |-> FALSE, items |-> <<>>]),
     Some([isArray |-> TRUE, items |-> <<>>]),
     Some([isArray |-> TRUE, items |-> <<[code |-> <<"b", "s">>, address |-> A_BS]>>])}
        \cup {Some([isArray |-> TRUE, items |-> CampusEntries(pr, <<>>, <<" ", " ">>, bs)]) :
                 pr \in {A_PR, <<>>}, bs \in {A_BS, <<" ">>}}

CampusCodeInputs ==
    {Null, Some(<<>>), Some(<<"p", "r">>), Some(<<"P", "R">>), Some(<<"p", "k">>),
     Some(<<"a", "v">>), Some(<<"b", "s">>), Some(<<"x", "x">>), Some(<<"p">>)}

GetCampusAddressInputs ==
    [campusCode : CampusCodeInputs, campusAddresses : CampusAddressLists]

CallGetCampusAddress ==
    /\ op = "getCampusAddress"
    /\ outcome = "pending"
    /\ output' = getCampusAddress(input.campusCode, input.campusAddresses)
    /\ outcome' = "returned"
    /\ UNCHANGED <<op, input>>
    /\ UNCHANGED <<homeVars, sideVars>>

MaxCampusLessons == 2

\* lessons of a day as getNextCampus reads them: time and room
CampusLessons ==
    [time : {LESSON_TIMES[1], LESSON_TIMES[2], <<>>, T_ABC},
     room : {R_PR, R_TAGGED, R_PLAIN, <<>>}]

GetNextCampusInputs ==
    [schedule : {Null} \cup
                {Some(l) : l \in UNION {[1..n -> CampusLessons] :
                                           n \in 0..MaxCampusLessons}},
     now : {600, 630, 700, 731}]

CallGetNextCampus ==
    /\ op = "getNextCampus"
    /\ outcome = "pending"
    /\ output' = getNextCampus(input.schedule, input.now)
    /\ outcome' = "returned"
    /\ UNCHANGED <<op, input>>
    /\ UNCHANGED <<homeVars, sideVars>>

\* parseTimeString(timeStr) of schedule.js
CallParseTimeString ==
    /\ op = "parseTimeString"
    /\ outcome = "pending"
    /\ output' = parseTimeString(input.timeStr)
    /\ outcome' = "returned"
    /\ UNCHANGED <<op, input>>
    /\ UNCHANGED <<homeVars, sideVars>>

InitCall ==
    /\ HomeIdle
    /\ SideIdle
    /\ output = Null
    /\ outcome = "pending"
    /\ \/ op = "getDaysForward" /\ input \in DaysForwardInputs
       \/ op = "calculateAlarm" /\ input \in CalculateAlarmInputs
       \/ op = "getNextClass" /\ input \in GetNextClassInputs
       \/ op = "parseSchedule" /\ input \in ParseScheduleInputs
       \/ op = "parseTimeString" /\ input \in [timeStr : TimeStrings]
       \/ op = "extractCampusCode" /\ input \in [room : RoomInputs]
       \/ op = "getCampusAddress" /\ input \in GetCampusAddressInputs
       \/ op = "getNextCampus" /\ input \in GetNextCampusInputs

NextCall ==
    \/ CallGetDaysForward
    \/ CallCalculateAlarm
    \/ CallGetNextClass
    \/ CallParseSchedule
    \/ CallParseTimeString
    \/ CallExtractCampusCode
    \/ CallGetCampusAddress
    \/ CallGetNextCampus

SpecCall == InitCall /\ [][NextCall]_vars

-----------------------------------------------------------------------------
(* The custom lessons screen (src/screens/CustomLessonsScreen.js) next to   *)
(* the home screen                                                          *)

MaxCustomLessons == 1

RoomNotGiven ==
    <<"N", "e", " ", "u", "k", "a", "z", "a", "n", "a">>

\* what the form can hold when "add" is pressed
SubjectInputs == {<<" ">>, <<"P", "D">>}

\* addCustomLesson of the storage: the lesson is appended to the stored
\* list with a persistent id
addCustomLesson(stored, lesson) ==
    Append(stored,
           [id |-> Len(stored) + 1, dayNumber |-> lesson.dayNumber,
            lessonNumber |-> lesson.lessonNumber, time |-> lesson.time,
            subject |-> lesson.subject, type |-> lesson.type,
            room |-> lesson.room])

\* handleAddLesson with the form's day, slot, subject, type and room
HandleAddLesson ==
    /\ Len(customLessons) < MaxCustomLessons
    /\ \E selectedDay \in 1..6, selectedLessonNumber \in Slots,
          subject \in SubjectInputs, type \in {<<>>}, room \in {<<>>} :
          IF trim(subject) = <<>>
          THEN UNCHANGED customLessons
          ELSE customLessons' =
                 addCustomLesson(customLessons,
                    [dayNumber    |-> selectedDay,
                     lessonNumber |-> selectedLessonNumber,
                     time         |-> LESSON_TIMES[selectedLessonNumber],
                     subject      |-> trim(subject),
                     type         |-> IF trim(type) # <<>> THEN trim(type)
                                      ELSE DefaultType,
                     room         |-> IF trim(room) # <<>> THEN trim(room)
                                      ELSE RoomNotGiven])
    /\ UNCHANGED <<schedule, reminders, settings, routeData, nowDay, nowMin,
                   nowSub, nextClass, nextAlarm, pc>>
    /\ UNCHANGED <<callVars, sideVars>>

InitCustom ==
    /\ schedule \in Schedules(1)
    /\ reminders = <<>>
    /\ settings = Null
    /\ routeData = Null
    /\ nowDay \in 0..6
    /\ nowMin = 540
    /\ nowSub = 0
    /\ nextClass = Null
    /\ nextAlarm = Null
    /\ pc = "start"
    /\ customLessons = <<>>
    /\ op = "none"
    /\ input = Null
    /\ output = Null
    /\ outcome = "pending"
    /\ SideIdle

NextCustom ==
    \/ HandleAddLesson
    \/ GetNextClass
    \/ CalculateAlarm

SpecCustom == InitCustom /\ [][NextCustom]_vars

-----------------------------------------------------------------------------
(* Calendar facts the properties are stated with                           *)

\* today's weekday, Monday = 1 .. Sunday = 7
Today == IF nowDay = 0 THEN 7 ELSE nowDay

StartMinute(lesson) == parseTimeString(lesson.time)

\* days from today to the next real occurrence of a weekly lesson of
\* weekday day starting at startMinute: 0 when it is still ahead today,
\* otherwise the next calendar day with that weekday (7 for today's weekday)
DaysUntil(day, startMinute) ==
    IF day = Today /\ startMinute > nowMin THEN 0
    ELSE IF (day - Today) % 7 = 0 THEN 7 ELSE (day - Today) % 7

\* start instant of that occurrence, in minutes from today's 00:00
NextOccurrence(day, lesson) ==
    DaysUntil(day, StartMinute(lesson)) * MinutesPerDay + StartMinute(lesson)

Searched == pc # "start"

Calculated == pc = "done" /\ nextAlarm # Null

TodayList == DayOf(schedule, Today)

LaterToday == {i \in 1..Len(TodayList) : StartMinute(TodayList[i]) > nowMin}

-----------------------------------------------------------------------------
(* Properties                                                              *)

\* C1: the lesson getNextClass returns is the chronologically nearest
\* upcoming one: no lesson of the schedule has its next calendar occurrence
\* strictly before the next occurrence of the returned lesson.
C1_NearestUpcoming ==
    (Searched /\ nextClass # Null) =>
        \A d \in 1..6 : \A i \in 1..Len(schedule[d]) :
            ~ (NextOccurrence(d, schedule[d][i])
                 < NextOccurrence(nextClass[1].dayNumber, nextClass[1]))

\* C2: the alarm instant lies exactly breakdown.total minutes before the
\* real start instant of the class (its start time on the calendar day on
\* which it next occurs).
C2_AlarmBeforeRealStart ==
    Calculated =>
        nextAlarm[1].fullDate =
            NextOccurrence(nextClass[1].dayNumber, nextClass[1])
                - nextAlarm[1].breakdown.total

\* the naive alarm: class time on today's date minus the total offset
NaiveAlarm == StartMinute(nextClass[1]) - nextAlarm[1].breakdown.total

\* the rollover condition of calculateAlarm
RolloverApplies ==
    /\ nextClass[1].date # "Segodnya"
    /\ (NaiveAlarm < nowMin \/ (NaiveAlarm = nowMin /\ nowSub > 0))

ExpectedDaysForward ==
    IF nextClass[1].dayNumber - Today <= 0
    THEN nextClass[1].dayNumber - Today + 7
    ELSE nextClass[1].dayNumber - Today

\* C3: when the event is not tagged today and the naive alarm is earlier
\* than now, fullDate is on the day daysForward(dayNumber, today) days after
\* today, keeps the naive alarm's hour and minute, and is later than now.
C3_Rollover ==
    (Calculated /\ RolloverApplies) =>
        /\ nextAlarm[1].fullDate \div MinutesPerDay = ExpectedDaysForward
        /\ (nextAlarm[1].fullDate % MinutesPerDay) \div 60
               = (NaiveAlarm % MinutesPerDay) \div 60
        /\ (nextAlarm[1].fullDate % MinutesPerDay) % 60
               = (NaiveAlarm % MinutesPerDay) % 60
        /\ nextAlarm[1].fullDate > nowMin

C3_Witness ==
    /\ Calculated
    /\ RolloverApplies
    /\ nextAlarm[1].fullDate >= MinutesPerDay
    /\ NaiveAlarm < 0

\* the characters of t read as zero-padded HH:MM
IsHHMM(t, hours, minutes) ==
    /\ Len(t) = 5
    /\ t[3] = ":"
    /\ \A k \in {1, 2, 4, 5} : t[k] \in Digits
    /\ DigitValue(t[1]) * 10 + DigitValue(t[2]) = hours
    /\ DigitValue(t[4]) * 10 + DigitValue(t[5]) = minutes

\* C4: without rollover, fullDate is the class start on today's date minus
\* (morningRoutine + travel + extraTime) minutes, and time is the zero-padded
\* HH:MM of that instant (09:00 with 60/35/10 gives 07:15).
C4_NoRollover ==
    (Calculated /\ ~ RolloverApplies) =>
        LET b == nextAlarm[1].breakdown
            expected == StartMinute(nextClass[1])
                          - (b.morningRoutine + b.travelTime + b.extraTime)
        IN  /\ nextAlarm[1].fullDate = expected
            /\ IsHHMM(nextAlarm[1].time,
                      (expected % MinutesPerDay) \div 60,
                      (expected % MinutesPerDay) % 60)
            /\ (/\ StartMinute(nextClass[1]) = 540
                /\ b.morningRoutine = 60 /\ b.travelTime = 35
                /\ b.extraTime = 10)
               => nextAlarm[1].time = <<"0", "7", ":", "1", "5">>

C4_Witness ==
    /\ Calculated
    /\ ~ RolloverApplies
    /\ nextAlarm[1].breakdown.total = 105
    /\ nextAlarm[1].time = <<"0", "7", ":", "1", "5">>

\* C5: breakdown.travelTime is routeData.duration (30 when absent) plus
\* trafficInfo.additionalTime (0 when absent), and breakdown.total is the
\* sum of the three components.
C5_Breakdown ==
    Calculated =>
        LET b == nextAlarm[1].breakdown
            duration ==
                IF routeData = Null THEN 30
                ELSE IF routeData[1].duration = Null THEN 30
                ELSE routeData[1].duration[1]
            additional ==
                IF routeData = Null THEN 0
                ELSE IF routeData[1].trafficInfo = Null THEN 0
                ELSE IF routeData[1].trafficInfo[1].additionalTime = Null
                THEN 0
                ELSE routeData[1].trafficInfo[1].additionalTime[1]
        IN  /\ b.travelTime = duration + additional
            /\ b.total = b.morningRoutine + b.travelTime + b.extraTime

\* C6: if today's list holds a lesson starting strictly after now, the
\* result is the first such lesson, tagged today with today's weekday; a
\* lesson is returned with that tag only if it starts strictly after now.
C6_TodayPath ==
    Searched =>
        /\ LaterToday # {} =>
             LET first == CHOOSE k \in LaterToday : \A j \in LaterToday : k <= j
             IN  /\ nextClass # Null
                 /\ nextClass[1].id = TodayList[first].id
                 /\ nextClass[1].time = TodayList[first].time
                 /\ nextClass[1].date = "Segodnya"
                 /\ nextClass[1].dayNumber = Today
        /\ (nextClass # Null /\ nextClass[1].date = "Segodnya") =>
             StartMinute(nextClass[1]) > nowMin

C6_Witness ==
    /\ Searched
    /\ nextClass # Null
    /\ nextClass[1].date = "Segodnya"
    /\ Len(TodayList) = 2
    /\ nextClass[1].id = TodayList[2].id

\* C7: when no lesson remains today, the result is the first lesson of the
\* first non-empty day in the order ((today - 1 + offset) % 6) + 1 for
\* offset 1..7, with that day as dayNumber, tagged tomorrow exactly when the
\* offset is 1 and with the weekday name otherwise.
C7_ForwardScan ==
    (Searched /\ LaterToday = {}) =>
        LET dayAt(offset) == ((Today - 1 + offset) % 6) + 1
            nonEmpty == {offset \in 1..7 : Len(DayOf(schedule, dayAt(offset))) > 0}
        IN  nonEmpty # {} =>
              LET offset == CHOOSE k \in nonEmpty : \A j \in nonEmpty : k <= j
              IN  /\ nextClass # Null
                  /\ nextClass[1].id = schedule[dayAt(offset)][1].id
                  /\ nextClass[1].dayNumber = dayAt(offset)
                  /\ (nextClass[1].date = "Zavtra") <=> (offset = 1)
                  /\ offset # 1 =>
                       nextClass[1].date = getDayName(dayAt(offset))

C7_Witness ==
    /\ Searched
    /\ Len(TodayList) > 0
    /\ LaterToday = {}
    /\ nextClass # Null
    /\ nextClass[1].date \notin {"Segodnya", "Zavtra"}
    /\ nextClass[1].dayNumber # Today

\* C8: a lesson tagged tomorrow takes place on the calendar day right after
\* today: its dayNumber is the weekday following today's weekday.
C8_TomorrowIsNextDay ==
    (Searched /\ nextClass # Null /\ nextClass[1].date = "Zavtra") =>
        nextClass[1].dayNumber = (Today % 7) + 1

\* the reminders whose datetime is after now
FutureReminders == {i \in 1..Len(reminders) : reminders[i].datetime > nowMin}

\* C9: the next event is the earlier of the next class and the earliest
\* reminder after now; on a tie the class.
C9_MergeWithReminders ==
    (pc = "done" /\ FutureReminders # {}) =>
        LET earliest == CHOOSE i \in FutureReminders :
                \A j \in FutureReminders :
                    reminders[i].datetime <= reminders[j].datetime
        IN  /\ nextClass # Null
            /\ NextOccurrence(nextClass[1].dayNumber, nextClass[1])
                   <= reminders[earliest].datetime

\* C10: the result is null exactly when no lesson of today starts after now
\* and every day 1..6 is empty.
C10_NullIff ==
    Searched =>
        ((nextClass = Null) <=>
            (LaterToday = {} /\ \A d \in 1..6 : Len(DayOf(schedule, d)) = 0))

C10_Witness ==
    /\ Searched
    /\ nextClass = Null
    /\ nowDay = 0

\* C11: getDaysForward returns d in 1..7 such that the weekday d days after
\* today is the target weekday; 7 (never 0) when the target is today's weekday.
C11_DaysForward ==
    (op = "getDaysForward" /\ outcome = "returned") =>
        /\ output \in 1..7
        /\ (input.today + output) % 7 = input.target % 7
        /\ (input.target % 7 = input.today) => output = 7

C11_Witness ==
    /\ op = "getDaysForward"
    /\ outcome = "returned"
    /\ input.target = input.today
    /\ output = 7

\* a substring of the form H:MM or HH:MM occurs in str
HasTimePattern(str) ==
    \E i \in 1..Len(str) : \E k \in {1, 2} :
        /\ i + k + 2 <= Len(str)
        /\ \A j \in i..(i + k - 1) : str[j] \in Digits
        /\ str[i + k] = ":"
        /\ str[i + k + 1] \in Digits
        /\ str[i + k + 2] \in Digits

\* C12: calculateAlarm returns null exactly when the event is missing, its
\* time is absent or empty, or the time holds no H:MM pattern; with null
\* settings and route data the defaults 60, 10 and 30 are used.
C12_NullExactly ==
    (op = "calculateAlarm" /\ outcome = "returned") =>
        /\ (output = Null) <=>
              \/ input.event = Null
              \/ Len(input.event[1].time) = 0
              \/ ~ HasTimePattern(input.event[1].time)
        /\ (output # Null /\ input.settings = Null /\ input.route = Null) =>
              /\ output[1].breakdown.morningRoutine = 60
              /\ output[1].breakdown.extraTime = 10
              /\ output[1].breakdown.travelTime = 30

C12_Witness ==
    /\ op = "calculateAlarm"
    /\ outcome = "returned"
    /\ output # Null
    /\ input.settings = Null
    /\ input.route = Null
    /\ input.event[1].time = T_ONEDIGIT

\* C13: parseSchedule, getNextClass and calculateAlarm never throw on absent
\* but well-typed input (null schedule, day without lessons, lesson without
\* its fields, null settings, null route data).
C13_NeverThrows ==
    (op \in {"parseSchedule", "getNextClass", "calculateAlarm"}) =>
        outcome # "threw"

ParseScheduleReturned == op = "parseSchedule" /\ outcome = "returned"

\* C14: every day list produced by parseSchedule is in non-decreasing
\* lessonNumber order, whatever the order of the slot keys in the raw grid
\* and however many lessons share a slot.
C14_Sorted ==
    ParseScheduleReturned =>
        \A k \in DOMAIN output :
            \A i, j \in 1..Len(output[k]) :
                i < j => output[k][i].lessonNumber <= output[k][j].lessonNumber

\* a day whose raw slots arrive in descending order, two lessons per slot
C14_Witness ==
    /\ ParseScheduleReturned
    /\ input.raw \in OrderingRaws
    /\ LET dayData == input.raw[1].grid[1][1].value[1]
       IN  /\ Len(dayData) >= 2
           /\ parseInt(dayData[1].key) > parseInt(dayData[2].key)
           /\ Len(dayData[1].value[1]) = 2
    /\ Len(output[<<"1">>]) >= 4

\* positions <<day, slot, entry>> of the raw lessons that are objects
RawPositions ==
    IF input.raw = Null \/ input.raw[1].grid = Null THEN {}
    ELSE LET grid == input.raw[1].grid[1]
         IN  {p \in (1..Len(grid)) \X (1..(MaxSlotKeys + 1)) \X (1..(MaxPerSlot + 1)) :
                /\ grid[p[1]].value # Null
                /\ p[2] <= Len(grid[p[1]].value[1])
                /\ grid[p[1]].value[1][p[2]].value # Null
                /\ p[3] <= Len(grid[p[1]].value[1][p[2]].value[1])
                /\ grid[p[1]].value[1][p[2]].value[1][p[3]] # Null}

RawAt(p) == input.raw[1].grid[1][p[1]].value[1][p[2]].value[1][p[3]][1]

\* the emitted lessons that come from the raw lesson at position p
EmittedFrom(p) ==
    LET grid    == input.raw[1].grid[1]
        dayKey  == grid[p[1]].key
        slotKey == grid[p[1]].value[1][p[2]].key
    IN  {n \in 1..Len(output[dayKey]) :
            output[dayKey][n].id = <<dayKey, slotKey, p[3] - 1>>}

\* C15: a raw lesson with a validity window is in the output exactly when
\* now lies between the start of its dateFrom day and the end of its dateTo
\* day, both days included (days taken in UTC; 09:00 UTC of a day is that
\* same calendar day in every zone from UTC-9 to UTC+14).
C15_Window ==
    ParseScheduleReturned =>
        \A p \in RawPositions :
            (RawAt(p).df # Null /\ RawAt(p).dt # Null) =>
                (EmittedFrom(p) # {} <=>
                    /\ DateOf(RawAt(p).df[1]) <= input.now
                    /\ input.now < DateOf(RawAt(p).dt[1] + 1))

IsBlank(str) == \A i \in 1..Len(str) : str[i] = " "

\* C16: every emitted lesson has non-blank subject, type, room and
\* professor; a raw field that is absent or blank gives the placeholder.
C16_NonBlank ==
    ParseScheduleReturned =>
        /\ \A k \in DOMAIN output : \A n \in 1..Len(output[k]) :
              /\ ~ IsBlank(output[k][n].subject)
              /\ ~ IsBlank(output[k][n].type)
              /\ ~ IsBlank(output[k][n].room)
              /\ ~ IsBlank(output[k][n].professor)
        /\ \A p \in RawPositions : \A n \in EmittedFrom(p) :
              LET lesson == output[input.raw[1].grid[1][p[1]].key][n]
              IN  /\ IsBlank(RawAt(p).sbj) => lesson.subject = UnknownSubject
                  /\ IsBlank(RawAt(p).type) => lesson.type = DefaultType
                  /\ IsBlank(RawAt(p).teacher) => lesson.professor = TeacherNotSet

\* C17: custom lessons are merged at read time: when the schedule is read
\* for the next-class search, every stored custom lesson of day d is in day
\* d's list with its own time and lessonNumber, and so the search finds a
\* class whenever a custom lesson is stored.
C17_CustomMerged ==
    [][GetNextClass =>
          /\ \A i \in 1..Len(customLessons) :
                \E n \in 1..Len(DayOf(schedule, customLessons[i].dayNumber)) :
                   LET lesson == DayOf(schedule, customLessons[i].dayNumber)[n]
                   IN  /\ "dayNumber" \in DOMAIN lesson
                       /\ lesson.dayNumber = customLessons[i].dayNumber
                       /\ lesson.time = customLessons[i].time
                       /\ lesson.lessonNumber = customLessons[i].lessonNumber
          /\ customLessons # <<>> => nextClass' # Null]_vars

\* a match of \d{k}:\d\d starts at position i of str
PatternAt(str, i, k) ==
    /\ i + k + 2 <= Len(str)
    /\ \A j \in i..(i + k - 1) : str[j] \in Digits
    /\ str[i + k] = ":"
    /\ str[i + k + 1] \in Digits
    /\ str[i + k + 2] \in Digits

\* hours * 60 + minutes of the pattern with k hour digits at position i
MinutesAt(str, i, k) ==
    LET hours == IF k = 2 THEN 10 * DigitValue(str[i]) + DigitValue(str[i + 1])
                 ELSE DigitValue(str[i])
    IN  60 * hours + 10 * DigitValue(str[i + k + 1]) + DigitValue(str[i + k + 2])

\* C18: parseTimeString (minutes) returns hours*60+minutes of the first H:MM
\* or HH:MM pattern anywhere in the string, ignoring later patterns, and 0
\* when the string is empty or holds no pattern.
C18_FirstPattern ==
    (op = "parseTimeString" /\ outcome = "returned") =>
        LET str    == input.timeStr
            starts == {i \in 1..Len(str) : PatternAt(str, i, 1) \/ PatternAt(str, i, 2)}
        IN  /\ starts = {} => output = 0
            /\ starts # {} =>
                  \E i \in starts :
                     /\ \A j \in starts : i <= j
                     /\ output = MinutesAt(str, i, IF PatternAt(str, i, 2) THEN 2 ELSE 1)
            /\ str = LESSON_TIMES[1] => output = 540
            /\ str = T_TEXT => output = 545

C18_Witness ==
    /\ op = "parseTimeString"
    /\ outcome = "returned"
    /\ input.timeStr = T_TEXT
    /\ output = 545

\* position i of str lies inside an HTML tag: a "<" at or before it with no
\* ">" in between and a ">" at or after it
InTag(str, i) ==
    \E a \in 1..i :
        /\ str[a] = "<"
        /\ \A m \in a..(i - 1) : str[m] # ">"
        /\ \E b \in i..Len(str) : str[b] = ">"

\* c is the letter l in either case
SameLetter(c, l) ==
    \/ c = l
    \/ <<c, l>> \in {<<"P", "p">>, <<"R", "r">>, <<"K", "k">>, <<"A", "a">>,
                     <<"V", "v">>, <<"B", "b">>, <<"S", "s">>}

\* the code that str, without tags and surrounding blanks, starts with
\* (in either case, followed by a hyphen), Null when there is none
ExpectedCampusCode(str) ==
    LET kept    == {i \in 1..Len(str) : ~ InTag(str, i)}
        visible == {i \in kept : str[i] # " "}
        Least(S) == CHOOSE i \in S : \A j \in S : i <= j
        After(i) == {j \in kept : j > i}
    IN  IF visible = {} \/ After(Least(visible)) = {}
           \/ After(Least(After(Least(visible)))) = {}
        THEN Null
        ELSE LET first  == Least(visible)
                 second == Least(After(first))
                 third  == Least(After(second))
                 codes  == {c \in CampusCodes :
                               /\ SameLetter(str[first], c[1])
                               /\ SameLetter(str[second], c[2])
                               /\ str[third] = "-"}
             IN  IF codes = {} THEN Null ELSE Some(CHOOSE c \in codes : TRUE)

\* C19: extractCampusCode returns one of the four codes exactly when the room
\* string, after removing tags, trimming and lowercasing, starts with that
\* code and a hyphen; null for every other input (non-strings and the empty
\* string included); it never throws.
C19_CampusCode ==
    (op = "extractCampusCode" /\ outcome # "pending") =>
        /\ outcome = "returned"
        /\ output \in {Null} \cup {Some(c) : c \in CampusCodes}
        /\ output = IF input.room.type = "string"
                    THEN ExpectedCampusCode(input.room.value)
                    ELSE Null

C19_Witness ==
    /\ op = "extractCampusCode"
    /\ outcome = "returned"
    /\ input.room = [type |-> "string", value |-> R_TAGGED]
    /\ output = Some(<<"p", "k">>)

\* C20: getCampusAddress returns the address of the configured campus whose
\* code equals the given code exactly; null when the code is absent, the
\* list is not an array, no entry has the code, or the entry's address is
\* empty or whitespace-only.
C20_CampusAddress ==
    (op = "getCampusAddress" /\ outcome = "returned") =>
        LET code == input.campusCode
            list == input.campusAddresses
            usable == code # Null /\ list # Null /\ list[1].isArray
            hits == IF usable
                    THEN {i \in 1..Len(list[1].items) :
                             /\ list[1].items[i].code = code[1]
                             /\ \E n \in 1..Len(list[1].items[i].address) :
                                   list[1].items[i].address[n] # " "}
                    ELSE {}
        IN  /\ hits = {} => output = Null
            /\ \A i \in hits : output = Some(list[1].items[i].address)

C20_Witness ==
    /\ op = "getCampusAddress"
    /\ outcome = "returned"
    /\ input.campusCode = Some(<<"b", "s">>)
    /\ output = Some(A_BS)

GetNextCampusReturned == op = "getNextCampus" /\ outcome = "returned"

CampusDay == IF input.schedule = Null THEN <<>> ELSE input.schedule[1]

\* the lessons of the day whose slot has not elapsed: start + 90 >= now
Unexpired ==
    {i \in 1..Len(CampusDay) :
        \E p \in 1..Len(CampusDay[i].time) : \E k \in {1, 2} :
            /\ PatternAt(CampusDay[i].time, p, k)
            /\ \A q \in 1..(p - 1) :
                  ~ PatternAt(CampusDay[i].time, q, 1)
                  /\ ~ PatternAt(CampusDay[i].time, q, 2)
            /\ k = 1 => ~ PatternAt(CampusDay[i].time, p, 2)
            /\ MinutesAt(CampusDay[i].time, p, k) + 90 >= input.now}

\* the lessons of the day whose room gives a campus code
Resolvable ==
    {i \in 1..Len(CampusDay) : ExpectedCampusCode(CampusDay[i].room) # Null}

CodeOfFirst(S) ==
    IF S = {} THEN Null
    ELSE ExpectedCampusCode(CampusDay[CHOOSE i \in S : \A j \in S : i <= j].room)

C25_NotInThePast ==
    (Calculated /\ nextClass[1].date # "Segodnya") =>
        /\ \/ nextAlarm[1].fullDate > nowMin
           \/ nextAlarm[1].fullDate = nowMin /\ nowSub = 0
        /\ \/ nextAlarm[1].fullDate = NaiveAlarm /\ NaiveAlarm >= nowMin
           \/ nextAlarm[1].fullDate >= MinutesPerDay

\* the event falls on today's weekday next week and its naive alarm is past
C25_Witness ==
    /\ Calculated
    /\ nextClass[1].date # "Segodnya"
    /\ nextClass[1].dayNumber = Today
    /\ NaiveAlarm < nowMin
    /\ nextAlarm[1].fullDate >= 7 * MinutesPerDay

-----------------------------------------------------------------------------
(* storage.js: the reminder list kept under one storage key                *)

MaxCalls == 2

MaxClock == 2

MaxReminders == 3

Callers == 1..MaxCalls

\* the value of a property that was set to undefined
Undefined == <<"undefined">>

\* { ...a, ...b }: the properties of b override those of a
Spread(a, b) == b @@ a

\* JSON.parse(JSON.stringify(object)): a property whose value is undefined
\* is not written
JSONObject(object) ==
    [f \in {g \in DOMAIN object : object[g] # Undefined} |-> object[f]]

\* JSON.parse(JSON.stringify(list)) for a list of objects
JSONList(list) == [i \in 1..Len(list) |-> JSONObject(list[i])]

\* new Date().toISOString() at clock value t
toISOString(t) == NumToString(t) \o <<"Z">>

\* reminders.findIndex(r => r.id === id), 0 when there is none
findIndex(list, id) ==
    LET hits == {i \in 1..Len(list) : "id" \in DOMAIN list[i] /\ list[i]["id"] = id}
    IN IF hits = {} THEN 0 ELSE CHOOSE i \in hits : \A j \in hits : i <= j

keptByFilter_Matching(r, id) == "id" \in DOMAIN r /\ r["id"] = id

\* r => r.id !== id
keptByFilter(r, id) == ~("id" \in DOMAIN r /\ r["id"] = id)

\* reminders.filter(r => r.id !== id)
filterOut(list, id) == SelectSeq(list, LAMBDA r : keptByFilter(r, id))

\* the object addReminder builds from its argument
newReminder(reminder, t) ==
    Spread(Spread(reminder, "id" :> NumToString(t)), "createdAt" :> toISOString(t))

\* the object updateReminder puts in place of the stored one
updatedReminder(old, updates, t) ==
    Spread(Spread(old, updates), "updatedAt" :> toISOString(t))

IdleCall ==
    [fn |-> "none", pc |-> "idle", id |-> Null, data |-> Null,
     toSave |-> <<>>, result |-> Null, wrote |-> FALSE]

InFlight == {c \in Callers : calls[c].pc # "idle"}

AddsInFlight == {c \in InFlight : calls[c].fn = "addReminder"}

\* a reminder stored before the calls under study
Preexisting ==
    ("title" :> <<"o">>) @@ ("id" :> NumToString(0)) @@ ("createdAt" :> toISOString(0))

\* the objects the callers pass to addReminder
ReminderInputs ==
    {("title" :> <<"a">>),
     ("title" :> <<"a">>) @@ ("id" :> <<"7">>),
     ("title" :> <<"a">>) @@ ("type" :> Undefined)}

\* the objects the callers pass to updateReminder
UpdateInputs ==
    {("title" :> <<"c">>),
     ("id" :> <<"9">>)}

\* the ids the callers pass to updateReminder and deleteReminder
IdInputs == {NumToString(0), NumToString(1), <<"9">>}

\* addReminder is called: it awaits loadReminders
StartAddReminder(c, reminder, limit) ==
    /\ calls[c].pc = "idle"
    /\ Cardinality(InFlight) < limit
    /\ Len(reminders) + Cardinality(AddsInFlight) < MaxReminders
    /\ calls' = [calls EXCEPT ![c] =
                    [IdleCall EXCEPT !.fn = "addReminder", !.pc = "load",
                                     !.data = Some(reminder)]]
    /\ UNCHANGED <<homeVars, callVars, cache, clock, loading, loads>>

\* updateReminder is called: it awaits loadReminders
StartUpdateReminder(c, id, updates, limit) ==
    /\ calls[c].pc = "idle"
    /\ Cardinality(InFlight) < limit
    /\ calls' = [calls EXCEPT ![c] =
                    [IdleCall EXCEPT !.fn = "updateReminder", !.pc = "load",
                                     !.id = Some(id), !.data = Some(updates)]]
    /\ UNCHANGED <<homeVars, callVars, cache, clock, loading, loads>>

\* deleteReminder is called: it awaits loadReminders
StartDeleteReminder(c, id, limit) ==
    /\ calls[c].pc = "idle"
    /\ Cardinality(InFlight) < limit
    /\ calls' = [calls EXCEPT ![c] =
                    [IdleCall EXCEPT !.fn = "deleteReminder", !.pc = "load",
                                     !.id = Some(id)]]
    /\ UNCHANGED <<homeVars, callVars, cache, clock, loading, loads>>

\* loadReminders resolves in addReminder: the new reminder is built and
\* pushed, saveReminders is awaited
AddReminderLoad(c) ==
    /\ calls[c].pc = "load"
    /\ calls[c].fn = "addReminder"
    /\ LET made == newReminder(calls[c].data[1], clock)
       IN calls' = [calls EXCEPT ![c].pc = "save",
                                 ![c].toSave = Append(reminders, made),
                                 ![c].result = Some(made)]
    /\ UNCHANGED <<homeVars, callVars, cache, clock, loading, loads>>

\* loadReminders resolves in updateReminder: the stored reminder is replaced
\* and saveReminders awaited, or null is returned when the id is not found
UpdateReminderLoad(c) ==
    /\ calls[c].pc = "load"
    /\ calls[c].fn = "updateReminder"
    /\ LET index == findIndex(reminders, calls[c].id[1])
           made == updatedReminder(reminders[index], calls[c].data[1], clock)
       IN IF index # 0
          THEN calls' = [calls EXCEPT ![c].pc = "save",
                                      ![c].toSave = [reminders EXCEPT ![index] = made],
                                      ![c].result = Some(made)]
          ELSE calls' = [calls EXCEPT ![c].pc = "done", ![c].result = Null]
    /\ UNCHANGED <<homeVars, callVars, cache, clock, loading, loads>>

\* loadReminders resolves in deleteReminder: the list is filtered and
\* saveReminders awaited
DeleteReminderLoad(c) ==
    /\ calls[c].pc = "load"
    /\ calls[c].fn = "deleteReminder"
    /\ calls' = [calls EXCEPT ![c].pc = "save",
                              ![c].toSave = filterOut(reminders, calls[c].id[1])]
    /\ UNCHANGED <<homeVars, callVars, cache, clock, loading, loads>>

\* saveReminders writes the list the caller holds, and the call returns
SaveReminders(c) ==
    /\ calls[c].pc = "save"
    /\ reminders' = JSONList(calls[c].toSave)
    /\ calls' = [calls EXCEPT ![c].pc = "done", ![c].toSave = <<>>, ![c].wrote = TRUE]
    /\ UNCHANGED <<schedule, settings, routeData, nowDay, nowMin, nowSub,
                   nextClass, nextAlarm, pc, customLessons>>
    /\ UNCHANGED <<callVars, cache, clock, loading, loads>>

\* the caller has taken the result and may call again
ReturnCall(c) ==
    /\ calls[c].pc = "done"
    /\ calls' = [calls EXCEPT ![c] = IdleCall]
    /\ UNCHANGED <<homeVars, callVars, cache, clock, loading, loads>>

\* a millisecond passes
Tick ==
    /\ clock < MaxClock
    /\ clock' = clock + 1
    /\ UNCHANGED <<homeVars, callVars, cache, calls, loading, loads>>

InitReminders ==
    /\ schedule = [d \in 1..6 |-> <<>>]
    /\ reminders = <<Preexisting>>
    /\ settings = Null
    /\ routeData = Null
    /\ nowDay = 1
    /\ nowMin = 0
    /\ nowSub = 0
    /\ nextClass = Null
    /\ nextAlarm = Null
    /\ pc = "start"
    /\ customLessons = <<>>
    /\ op = "none"
    /\ input = Null
    /\ output = Null
    /\ outcome = "pending"
    /\ cache = Null
    /\ clock = 1
    /\ calls = [c \in Callers |-> IdleCall]
    /\ loading = TRUE
    /\ loads = <<>>

\* addReminder calls one after the other
NextAdd ==
    \/ \E c \in Callers : \E reminder \in ReminderInputs : StartAddReminder(c, reminder, 1)
    \/ \E c \in Callers : AddReminderLoad(c)
    \/ \E c \in Callers : SaveReminders(c)
    \/ \E c \in Callers : ReturnCall(c)
    \/ Tick

SpecAdd == InitReminders /\ [][NextAdd]_vars

\* addReminder calls that may overlap
NextAddOverlap ==
    \/ \E c \in Callers : \E reminder \in ReminderInputs : StartAddReminder(c, reminder, MaxCalls)
    \/ \E c \in Callers : AddReminderLoad(c)
    \/ \E c \in Callers : SaveReminders(c)
    \/ Tick

SpecAddOverlap == InitReminders /\ [][NextAddOverlap]_vars

\* addReminder, updateReminder and deleteReminder calls one after the other,
\* each started when the one before has returned
NextReminders ==
    \/ \E reminder \in ReminderInputs : StartAddReminder(1, reminder, 1)
    \/ \E id \in IdInputs : \E updates \in UpdateInputs : StartUpdateReminder(1, id, updates, 1)
    \/ \E id \in IdInputs : StartDeleteReminder(1, id, 1)
    \/ AddReminderLoad(1)
    \/ UpdateReminderLoad(1)
    \/ DeleteReminderLoad(1)
    \/ SaveReminders(1)
    \/ ReturnCall(1)
    \/ Tick

SpecReminders == InitReminders /\ [][NextReminders]_vars

-----------------------------------------------------------------------------
(* storage.js: the settings and the schedule cache; HomeScreen.loadData     *)

\* 24 * 60 * 60 * 1000, the default of loadScheduleCache's maxAge
DefaultMaxAge == 24 * 60 * 60 * 1000

\* the clock is read every six hours
ClockStep == 6 * 60 * 60 * 1000

MaxClockSteps == 6

MaxLoads == 2

Loaders == 1..MaxLoads

setItem_Merge(item, value) ==
    IF item = Null THEN Some(JSONObject(value))
    ELSE Some(Spread(item[1], JSONObject(value)))

\* AsyncStorage.setItem(key, JSON.stringify(value)): the item is replaced
setItem(item, value) == Some(JSONObject(value))

isStale_AtLimit(age, maxAge) == age >= maxAge

\* age > maxAge
isStale(age, maxAge) == age > maxAge

\* loadScheduleCache(maxAge) when getItem resolves with item at time now
loadScheduleCache(item, now, maxAge) ==
    IF item = Null THEN Null
    ELSE IF isStale(now - item[1].timestamp, maxAge) THEN Null
         ELSE Some(item[1].schedule)

alarmToSet_Computed(alarm, returns) == alarm

\* loadAlarmData: setNextAlarm(alarm) when calculateAlarm gave one,
\* setNextAlarm(null) when it gave null or something threw
alarmToSet(alarm, returns) == IF returns THEN alarm ELSE Null

\* settings objects of the older and of the present format
OldSettings ==
    [morningRoutine |-> <<"4", "5">>, extraTime |-> <<"5">>,
     universityAddress |-> <<"u">>]

SettingsInputs ==
    {[morningRoutine |-> <<"6", "0">>, extraTime |-> <<"1", "0">>,
      homeAddress |-> <<"h">>],
     [morningRoutine |-> <<"3", "0">>, extraTime |-> <<>>,
      homeAddress |-> <<>>]}

\* parsed schedules: one lesson on Monday, and no lesson at all
ScheduleInputs ==
    {[d \in 1..6 |-> DayList(d, IF d = 1 THEN <<1>> ELSE <<>>)],
     [d \in 1..6 |-> <<>>]}

MaxAgeInputs == {0, ClockStep, DefaultMaxAge}

\* saveSettings(value); resolves says whether setItem resolved
SaveSettings(value, resolves) ==
    /\ settings' = IF resolves THEN setItem(settings, value) ELSE settings
    /\ op' = "saveSettings"
    /\ input' = Some([arg |-> value, resolves |-> resolves])
    /\ output' = Some(resolves)
    /\ outcome' = "returned"
    /\ UNCHANGED <<schedule, reminders, routeData, nowDay, nowMin, nowSub,
                   nextClass, nextAlarm, pc, customLessons, sideVars>>

\* loadSettings(); resolves says whether getItem resolved
LoadSettings(resolves) ==
    /\ op' = "loadSettings"
    /\ input' = Some([arg |-> Null, resolves |-> resolves])
    /\ output' = IF resolves THEN settings ELSE Null
    /\ outcome' = "returned"
    /\ UNCHANGED <<homeVars, sideVars>>

\* saveScheduleCache(value)
SaveScheduleCache(value, resolves) ==
    /\ cache' = IF resolves
                THEN Some([schedule |-> value, timestamp |-> clock])
                ELSE cache
    /\ op' = "saveScheduleCache"
    /\ input' = Some([arg |-> value, resolves |-> resolves])
    /\ output' = Some(resolves)
    /\ outcome' = "returned"
    /\ UNCHANGED <<homeVars, clock, calls, loading, loads>>

\* loadScheduleCache(maxAge)
LoadScheduleCache(maxAge, resolves) ==
    /\ op' = "loadScheduleCache"
    /\ input' = Some([arg |-> maxAge, resolves |-> resolves])
    /\ output' = IF resolves THEN loadScheduleCache(cache, clock, maxAge) ELSE Null
    /\ outcome' = "returned"
    /\ UNCHANGED <<homeVars, sideVars>>

\* clearScheduleCache()
ClearScheduleCache(resolves) ==
    /\ cache' = IF resolves THEN Null ELSE cache
    /\ op' = "clearScheduleCache"
    /\ input' = Some([arg |-> Null, resolves |-> resolves])
    /\ output' = Some(resolves)
    /\ outcome' = "returned"
    /\ UNCHANGED <<homeVars, clock, calls, loading, loads>>

\* clearAllData(): every key is removed
ClearAllData(resolves) ==
    /\ cache' = IF resolves THEN Null ELSE cache
    /\ settings' = IF resolves THEN Null ELSE settings
    /\ routeData' = IF resolves THEN Null ELSE routeData
    /\ reminders' = IF resolves THEN <<>> ELSE reminders
    /\ op' = "clearAllData"
    /\ input' = Some([arg |-> Null, resolves |-> resolves])
    /\ output' = Some(resolves)
    /\ outcome' = "returned"
    /\ UNCHANGED <<schedule, nowDay, nowMin, nowSub, nextClass, nextAlarm, pc,
                   customLessons, clock, calls, loading, loads>>

\* six hours pass
Elapse ==
    /\ clock < MaxClockSteps * ClockStep
    /\ clock' = clock + ClockStep
    /\ nowMin' = (nowMin + 360) % MinutesPerDay
    /\ nowDay' = IF nowMin + 360 >= MinutesPerDay THEN (nowDay + 1) % 7 ELSE nowDay
    /\ UNCHANGED <<schedule, reminders, settings, routeData, nowSub, nextClass,
                   nextAlarm, pc, customLessons, callVars, cache, calls,
                   loading, loads>>

IdleLoad == [pc |-> "idle", settings |-> Null, nextClass |-> Null]

\* loadData is called (on mount, by the timer, by the refresh button):
\* setLoading(true), loadSettings is awaited
StartLoadData(i) ==
    /\ loads[i].pc = "idle"
    /\ loading' = TRUE
    /\ loads' = [loads EXCEPT ![i].pc = "settings"]
    /\ UNCHANGED <<homeVars, callVars, cache, clock, calls>>

\* loadSettings resolves (with null when getItem rejected); loadWeatherData
\* is awaited
SettingsResolved(i, resolves) ==
    /\ loads[i].pc = "settings"
    /\ loads' = [loads EXCEPT ![i].pc = "weather",
                              ![i].settings = IF resolves THEN settings ELSE Null]
    /\ UNCHANGED <<homeVars, callVars, cache, clock, calls, loading>>

\* loadWeatherData returns and loadAlarmData awaits loadScheduleCache, or
\* it rejects and the catch of loadData runs setLoading(false)
WeatherResolved(i, returns) ==
    /\ loads[i].pc = "weather"
    /\ IF returns
       THEN /\ loads' = [loads EXCEPT ![i].pc = "cache"]
            /\ UNCHANGED loading
       ELSE /\ loading' = FALSE
            /\ loads' = [loads EXCEPT ![i] = IdleLoad]
    /\ UNCHANGED <<homeVars, callVars, cache, clock, calls>>

\* loadScheduleCache resolves in loadAlarmData and getNextClass is called:
\* without a schedule or a next class, or when getNextClass throws on a
\* schedule of an unexpected shape, setNextAlarm(null) and loadData ends
\* with setLoading(false); otherwise loadRouteData is awaited
CacheResolved(i, resolves, returns) ==
    /\ loads[i].pc = "cache"
    /\ LET cached == IF resolves
                     THEN loadScheduleCache(cache, clock, DefaultMaxAge)
                     ELSE Null
           nextClassData == IF cached = Null THEN Null
                            ELSE getNextClass(cached[1], nowDay, nowMin)
       IN IF cached = Null \/ ~returns \/ nextClassData = Null
          THEN /\ nextAlarm' = Null
               /\ loading' = FALSE
               /\ loads' = [loads EXCEPT ![i] = IdleLoad]
          ELSE /\ loads' = [loads EXCEPT ![i].pc = "route",
                                         ![i].nextClass = nextClassData]
               /\ UNCHANGED <<nextAlarm, loading>>
    /\ UNCHANGED <<schedule, reminders, settings, routeData, nowDay, nowMin,
                   nowSub, nextClass, pc, customLessons>>
    /\ UNCHANGED <<callVars, cache, clock, calls>>

\* loadRouteData resolves in loadAlarmData: calculateAlarm, setNextAlarm,
\* and loadData ends with setLoading(false)
RouteResolved(i, resolves, returns) ==
    /\ loads[i].pc = "route"
    /\ LET route == IF resolves THEN routeData ELSE Null
           alarm == calculateAlarm(loads[i].nextClass, loads[i].settings,
                                   route, nowDay, nowMin, nowSub)
       IN nextAlarm' = alarmToSet(alarm, returns)
    /\ loading' = FALSE
    /\ loads' = [loads EXCEPT ![i] = IdleLoad]
    /\ UNCHANGED <<schedule, reminders, settings, routeData, nowDay, nowMin,
                   nowSub, nextClass, pc, customLessons>>
    /\ UNCHANGED <<callVars, cache, clock, calls>>

\* the storage calls of the screens and one loadData at a time
InitStorage ==
    /\ schedule = [d \in 1..6 |-> <<>>]
    /\ reminders = <<>>
    /\ settings \in {Null, Some(OldSettings)}
    /\ routeData = Null
    /\ nowDay = 1
    /\ nowMin = 0
    /\ nowSub = 0
    /\ nextClass = Null
    /\ nextAlarm = Null
    /\ pc = "start"
    /\ customLessons = <<>>
    /\ op = "none"
    /\ input = Null
    /\ output = Null
    /\ outcome = "pending"
    /\ cache = Null
    /\ clock = 0
    /\ calls = <<>>
    /\ loading = TRUE
    /\ loads = [i \in Loaders |-> IdleLoad]

NextStorage ==
    \/ \E value \in SettingsInputs : \E resolves \in BOOLEAN : SaveSettings(value, resolves)
    \/ \E resolves \in BOOLEAN : LoadSettings(resolves)
    \/ \E value \in ScheduleInputs : \E resolves \in BOOLEAN : SaveScheduleCache(value, resolves)
    \/ \E maxAge \in MaxAgeInputs : \E resolves \in BOOLEAN : LoadScheduleCache(maxAge, resolves)
    \/ \E resolves \in BOOLEAN : ClearScheduleCache(resolves)
    \/ \E resolves \in BOOLEAN : ClearAllData(resolves)
    \/ Elapse
    \/ StartLoadData(1)
    \/ \E resolves \in BOOLEAN : SettingsResolved(1, resolves)
    \/ \E returns \in BOOLEAN : WeatherResolved(1, returns)
    \/ \E resolves, returns \in BOOLEAN : CacheResolved(1, resolves, returns)
    \/ \E resolves, returns \in BOOLEAN : RouteResolved(1, resolves, returns)

SpecStorage == InitStorage /\ [][NextStorage]_vars

\* loadData invocations that may overlap, over a store that does not change
InitLoad ==
    /\ schedule = [d \in 1..6 |-> <<>>]
    /\ reminders = <<>>
    /\ settings \in SettingsValues
    /\ routeData \in RouteValues
    /\ nowDay = 1
    /\ nowMin \in {0, 1380}
    /\ nowSub = 0
    /\ nextClass = Null
    /\ nextAlarm = Null
    /\ pc = "start"
    /\ customLessons = <<>>
    /\ op = "none"
    /\ input = Null
    /\ output = Null
    /\ outcome = "pending"
    /\ cache \in {Null} \cup {Some([schedule |-> value, timestamp |-> 0]) : value \in ScheduleInputs}
    /\ clock \in {DefaultMaxAge, DefaultMaxAge + ClockStep}
    /\ calls = <<>>
    /\ loading = TRUE
    /\ loads = [i \in Loaders |-> IdleLoad]

NextLoad ==
    \/ \E i \in Loaders : StartLoadData(i)
    \/ \E i \in Loaders : \E resolves \in BOOLEAN : SettingsResolved(i, resolves)
    \/ \E i \in Loaders : \E returns \in BOOLEAN : WeatherResolved(i, returns)
    \/ \E i \in Loaders : \E resolves, returns \in BOOLEAN : CacheResolved(i, resolves, returns)
    \/ \E i \in Loaders : \E resolves, returns \in BOOLEAN : RouteResolved(i, resolves, returns)

\* the mount effect and the timer call loadData, and every awaited call
\* returns or rejects
FairLoad ==
    /\ WF_vars(\E i \in Loaders : StartLoadData(i))
    /\ \A i \in Loaders :
          /\ WF_vars(\E resolves \in BOOLEAN : SettingsResolved(i, resolves))
          /\ WF_vars(\E returns \in BOOLEAN : WeatherResolved(i, returns))
          /\ WF_vars(\E resolves, returns \in BOOLEAN : CacheResolved(i, resolves, returns))
          /\ WF_vars(\E resolves, returns \in BOOLEAN : RouteResolved(i, resolves, returns))

SpecLoad == InitLoad /\ [][NextLoad]_vars /\ FairLoad

-----------------------------------------------------------------------------
(* Claims about the reminder list                                          *)

\* the ids of a list of reminders, position by position
IdsOf(list) == [i \in 1..Len(list) |-> list[i]["id"]]

\* the k-th smallest member of a set of positions
KthOf(S, k) == CHOOSE i \in S : Cardinality({j \in S : j < i}) = k - 1

Completed == {c \in Callers : calls[c].pc = "done"}

\* C23: a reminder's id is immutable: whatever addReminder, updateReminder
\* (with any update object) or deleteReminder writes, every reminder that
\* stays in the list keeps the id it had: an update leaves the ids in place,
\* an add keeps the ids already there, a delete leaves only reminders that
\* were there
C23_IdImmutable ==
    [][SaveReminders(1) =>
          /\ calls[1].fn = "updateReminder" => IdsOf(reminders') = IdsOf(reminders)
          /\ calls[1].fn = "addReminder" =>
                /\ Len(reminders') = Len(reminders) + 1
                /\ SubSeq(IdsOf(reminders'), 1, Len(reminders)) = IdsOf(reminders)
          /\ calls[1].fn = "deleteReminder" =>
                \A k \in 1..Len(reminders') : \E i \in 1..Len(reminders) :
                    reminders'[k] = reminders[i]]_vars

\* C26: no reminder is lost when addReminder calls overlap: once every call
\* has completed, the list holds the reminder stored before and the reminder
\* each call returned
C26_NoLostReminder ==
    (Completed # {} /\ \A c \in Callers : calls[c].pc \in {"idle", "done"}) =>
        /\ Len(reminders) = 1 + Cardinality(Completed)
        /\ reminders[1] = Preexisting
        /\ \A c \in Completed : \E i \in 1..Len(reminders) :
              reminders[i] = JSONObject(calls[c].result[1])

\* C27: after any sequence of addReminder calls the stored reminders have
\* pairwise distinct ids, also when two are added within one millisecond
C27_DistinctIds ==
    \A i, j \in 1..Len(reminders) :
        i # j => reminders[i]["id"] # reminders[j]["id"]

-----------------------------------------------------------------------------
(* Claims about the settings, the schedule cache and loadData              *)

C30_LoadDataFinishes ==
    /\ \A i \in Loaders : (loads[i].pc # "idle") ~> (loads[i].pc = "idle")
    /\ loading ~> ~loading
    /\ [][\A i \in Loaders :
            /\ (loads[i].pc # "idle" /\ loads'[i].pc = "idle") => ~loading'
            /\ \A resolves, returns \in BOOLEAN :
                  (/\ CacheResolved(i, resolves, returns)
                   /\ \/ ~resolves
                      \/ ~returns
                      \/ loadScheduleCache(cache, clock, DefaultMaxAge) = Null
                      \/ getNextClass(loadScheduleCache(cache, clock, DefaultMaxAge)[1],
                                      nowDay, nowMin) = Null)
                  => nextAlarm' = Null
            /\ \A resolves, returns \in BOOLEAN :
                  (/\ RouteResolved(i, resolves, returns)
                   /\ \/ ~returns
                      \/ calculateAlarm(loads[i].nextClass, loads[i].settings,
                                        IF resolves THEN routeData ELSE Null,
                                        nowDay, nowMin, nowSub) = Null)
                  => nextAlarm' = Null]_vars

\* every invocation has finished, loading is false, and the alarm shown
\* before was replaced by null because the cached schedule is stale
C30_Witness ==
    /\ Len(loads) >= 1
    /\ \A i \in Loaders : loads[i].pc = "idle"
    /\ ~loading
    /\ nextAlarm = Null
    /\ cache # Null
    /\ clock - cache[1].timestamp > DefaultMaxAge

====
